---- MODULE Spec2Model ----
(***************************************************************************)
(* Panel-lifecycle controller of the tree view plug (src/treeview.ts).     *)
(*                                                                         *)
(* The controller's functions are async: each runs synchronously up to an  *)
(* await, and resumes when the awaited collaborator call settles.  An      *)
(* action of this model is one such resumption: it takes the settled call  *)
(* (resolved or rejected), runs the synchronous code that follows it and   *)
(* stops at the next await, whose call it has just issued.  call[p].pc     *)
(* names the collaborator call that invocation p is awaiting.              *)
(***************************************************************************)
EXTENDS Integers, Sequences, FiniteSets, TLC

VARIABLES
    currentPosition,   \* module slot `currentPosition` (None = undefined)
    enabled,           \* the persisted preference behind is/setTreeViewEnabled
    panels,            \* positions at which the host shows the tree panel
    hasWindow,         \* typeof window !== "undefined"
    env,               \* what system.getEnv() returns
    call,              \* call[p]: the invocation running on p
    prev,              \* prev[p]: summary of the invocation p ran before call[p]
    resolved,          \* last result of the position resolver, with its inputs
    faults,            \* whether collaborator calls may reject in this run
    script             \* the resize script of the rendered panel (lines 155-164)

vars == <<currentPosition, enabled, panels, hasWindow, env, call, prev,
          resolved, faults, script>>

None == "undefined"

\* Bounds of the model: the largest mobileThreshold and viewport width, and
\* the number of panel positions other than "modal".
MaxThreshold == 0
MaxWidth == 1
NumSides == 1

\* Position enumeration: "modal", the value getAdaptivePosition returns for a
\* narrow viewport, and the positions beside the editor.
Sides == <<"left", "right">>
Position == {"modal"} \cup {Sides[i] : i \in 1..NumSides}

Procs == {1, 2}

Envs == {"server", "client"}

Configs == [position : Position, autoMobileMode : BOOLEAN,
            mobileThreshold : 0..MaxThreshold]

\* Number of asset.readAsset calls joined by Promise.all.
NumAssets == 9

IdleCall ==
    [op |-> "none", pc |-> "idle", ret |-> "none", target |-> None,
     hideArg |-> None, result |-> "none", err |-> "none", log |-> <<>>,
     pre |-> [currentPosition |-> None, enabled |-> FALSE, panels |-> {}],
     during |-> {}]

\* What is remembered of an invocation once the next one has started.
Summary(c) ==
    [op |-> c.op, result |-> c.result, err |-> c.err,
     pre |-> [currentPosition |-> c.pre.currentPosition, enabled |-> c.pre.enabled],
     hidePanels |-> Cardinality({i \in DOMAIN c.log : c.log[i][1] = "hidePanel"}),
     showPanels |-> Cardinality({i \in DOMAIN c.log : c.log[i][1] = "showPanel"})]

\* Number of entries of a call log that name the collaborator call `name`.
Count(log, name) == Cardinality({i \in DOMAIN log : log[i][1] = name})

\* Variant of getAdaptivePosition: the width is compared with < instead of <=.
getAdaptivePosition_strict(cfg, win, width) ==
    IF ~cfg.autoMobileMode
    THEN cfg.position
    ELSE LET isMobile == win /\ width < cfg.mobileThreshold
         IN  IF isMobile THEN "modal" ELSE cfg.position

\* Variant of getAdaptivePosition: the width is compared without looking for
\* a window.
getAdaptivePosition_noWindowTest(cfg, win, width) ==
    IF ~cfg.autoMobileMode
    THEN cfg.position
    ELSE LET isMobile == width <= cfg.mobileThreshold
         IN  IF isMobile THEN "modal" ELSE cfg.position

(***************************************************************************)
(* getAdaptivePosition: the position resolver.                             *)
(***************************************************************************)
getAdaptivePosition(cfg, win, width) ==
    IF ~cfg.autoMobileMode
    THEN cfg.position
    ELSE LET isMobile == win /\ width <= cfg.mobileThreshold
         IN  IF isMobile THEN "modal" ELSE cfg.position

(***************************************************************************)
(* How an awaited collaborator call may settle: TRUE = it resolves, FALSE  *)
(* = it rejects.  For the Promise.all of the asset reads the outcome is    *)
(* the asset whose read rejects, 0 when every read resolves.               *)
(***************************************************************************)
Outcomes == IF faults THEN BOOLEAN ELSE {TRUE}

AssetOutcomes == IF faults THEN 0..NumAssets ELSE {0}

\* The delay of the resize script's setTimeout, in milliseconds.
Debounce == 300

\* Time advances in steps of TickMs; a burst holds at most MaxBurst events.
TicksPerDebounce == 3
TickMs == Debounce \div TicksPerDebounce
MaxBurst == 3

(***************************************************************************)
(* The script of the rendered panel.  listening: the script registered its *)
(* resize listener (config.autoMobileMode of the render).  resizeTimeout:  *)
(* the live timers, each by the milliseconds left until it is due; a timer *)
(* that is due (0) runs when the event loop gets to it.  The other fields  *)
(* are history.  sinceResize: milliseconds since the last resize event,    *)
(* capped at Debounce.  events: resize events of the current burst, a      *)
(* burst being events that each follow the previous one by less than       *)
(* Debounce.  burstShows: invocations of treeview.show since the burst     *)
(* began.  finished: burstShows of the burst before, once there is one.    *)
(* firedAt: value of sinceResize when a timer last ran.  lateCancel: the   *)
(* event that began the current burst cleared a timer that was due.        *)
(***************************************************************************)
NoScript ==
    [listening |-> FALSE, resizeTimeout |-> {}, sinceResize |-> 0,
     events |-> 0, burstShows |-> 0, finished |-> {}, firedAt |-> {},
     lateCancel |-> FALSE]

(***************************************************************************)
(* Synchronous pieces shared by the resumptions.                           *)
(***************************************************************************)

\* A function returns normally to the host.
Return(c) == [c EXCEPT !.pc = "done", !.result = "ok"]

\* Variant of Throw: showTreeIfEnabled has no try/catch.
Throw_uncaught(c, e) ==
    [c EXCEPT !.pc = "done", !.result = "rejected", !.err = e]

\* An awaited call rejected with error e.  Nothing in toggleTree, showTree
\* or hideTree catches; the try/catch of showTreeIfEnabled encloses all of
\* its awaits, logs the error and lets the function return normally.
Throw(c, e) ==
    IF c.op = "showTreeIfEnabled"
    THEN [c EXCEPT !.pc = "done", !.result = "ok", !.err = e]
    ELSE [c EXCEPT !.pc = "done", !.result = "rejected", !.err = e]

\* showTree() is entered: getPlugConfig() is issued and awaited.
EnterShowTree(c) == [c EXCEPT !.pc = "showTree:getPlugConfig"]

\* The Promise.all of the asset reads is issued and awaited.
IssueReadAssets(c) == [c EXCEPT !.pc = "showTree:readAsset"]

\* hideTree() has returned to the code that awaited it.
AfterHideTree(c) ==
    IF c.ret = "showTree" THEN IssueReadAssets(c) ELSE Return(c)

\* Variant of EnterHideTree: hidePanel is issued whatever the slot holds.
EnterHideTree_unguarded(c, ret) ==
    [c EXCEPT !.pc = "hideTree:hidePanel", !.ret = ret,
              !.hideArg = currentPosition,
              !.log = Append(@, <<"hidePanel", currentPosition>>)]

\* hideTree() is entered from `ret`: with a rendered position, hidePanel is
\* issued for it and awaited; with none, hideTree returns at once.
EnterHideTree(c, ret) ==
    IF currentPosition # None
    THEN [c EXCEPT !.pc = "hideTree:hidePanel", !.ret = ret,
                   !.hideArg = currentPosition,
                   !.log = Append(@, <<"hidePanel", currentPosition>>)]
    ELSE AfterHideTree([c EXCEPT !.ret = ret])

(***************************************************************************)
(* Initial state: the module has just been loaded.  The preference is      *)
(* persisted, so it has whatever value an earlier session left.            *)
(***************************************************************************)
Loaded ==
    /\ currentPosition = None
    /\ enabled \in BOOLEAN
    /\ panels = {}
    /\ hasWindow \in BOOLEAN
    /\ env \in Envs
    /\ call = [p \in Procs |-> IdleCall]
    /\ prev = [p \in Procs |-> Summary(IdleCall)]
    /\ resolved = {}
    /\ script = NoScript

\* Collaborator calls may reject.
Init == Loaded /\ faults = TRUE

\* Every collaborator call resolves.
InitAllSucceed == Loaded /\ faults = FALSE

(***************************************************************************)
(* The host invokes one of the exported functions on p.  The function runs *)
(* up to its first await.                                                  *)
(***************************************************************************)
NewCall(op) ==
    [IdleCall EXCEPT !.op = op,
                     !.pre = [currentPosition |-> currentPosition,
                              enabled |-> enabled, panels |-> panels]]

\* The invocations that have started and not yet returned or rejected.
Running == {q \in Procs : call[q].pc \notin {"idle", "done"}}

\* call[p].during remembers the invocations that were running when the one
\* on p started, for as long as they are the current ones of their procs.
Invoke(p, c) ==
    /\ call[p].pc \in {"idle", "done"}
    /\ call' = [q \in Procs |->
                  IF q = p THEN [c EXCEPT !.during = Running \ {p}]
                  ELSE [call[q] EXCEPT !.during = @ \ {p}]]
    /\ prev' = [prev EXCEPT ![p] = Summary(call[p])]
    /\ UNCHANGED <<currentPosition, enabled, panels, hasWindow, env, resolved, faults, script>>

CallToggleTree(p) ==
    Invoke(p, [NewCall("toggleTree") EXCEPT !.pc = "toggleTree:isTreeViewEnabled"])

CallShowTree(p) == Invoke(p, EnterShowTree(NewCall("showTree")))

CallHideTree(p) == Invoke(p, EnterHideTree(NewCall("hideTree"), "host"))

CallShowTreeIfEnabled(p) ==
    Invoke(p, [NewCall("showTreeIfEnabled") EXCEPT !.pc = "showTreeIfEnabled:getEnv"])

(***************************************************************************)
(* toggleTree                                                              *)
(***************************************************************************)
\* Variant of toggleTree: the test of the preference is inverted.
toggleTree_inverted(p) ==
    LET c == call[p] IN
    /\ c.pc = "toggleTree:isTreeViewEnabled"
    /\ \E ok \in Outcomes :
         call' = [call EXCEPT ![p] =
                    IF ~ok THEN Throw(c, "isTreeViewEnabled")
                    ELSE IF enabled THEN EnterShowTree(c)
                    ELSE EnterHideTree(c, "toggleTree")]
    /\ UNCHANGED <<currentPosition, enabled, panels, hasWindow, env, prev, resolved, faults, script>>

\* isTreeViewEnabled() settles; showTree() or hideTree() is entered.
toggleTree(p) ==
    LET c == call[p] IN
    /\ c.pc = "toggleTree:isTreeViewEnabled"
    /\ \E ok \in Outcomes :
         call' = [call EXCEPT ![p] =
                    IF ~ok THEN Throw(c, "isTreeViewEnabled")
                    ELSE IF ~enabled THEN EnterShowTree(c)
                    ELSE EnterHideTree(c, "toggleTree")]
    /\ UNCHANGED <<currentPosition, enabled, panels, hasWindow, env, prev, resolved, faults, script>>

(***************************************************************************)
(* hideTree                                                                *)
(***************************************************************************)
\* Variant of hideTree_hidePanel: the slot is cleared although hidePanel
\* rejected.
hideTree_hidePanel_clearAnyway(p) ==
    LET c == call[p] IN
    /\ c.pc = "hideTree:hidePanel"
    /\ \E ok \in Outcomes :
         IF ok
         THEN /\ panels' = panels \ {c.hideArg}
              /\ currentPosition' = None
              /\ call' = [call EXCEPT ![p] =
                   [c EXCEPT !.pc = "hideTree:setTreeViewEnabled",
                             !.log = @ \o <<<<"hidePanel.resolved", c.hideArg>>,
                                            <<"currentPosition", None>>,
                                            <<"setTreeViewEnabled", "false">>>>]]
         ELSE /\ call' = [call EXCEPT ![p] = Throw(c, "hidePanel")]
              /\ currentPosition' = None
              /\ UNCHANGED panels
    /\ UNCHANGED <<enabled, hasWindow, env, prev, resolved, faults, script>>

\* editor.hidePanel settles; the slot is cleared and setTreeViewEnabled(false)
\* is issued.
hideTree_hidePanel(p) ==
    LET c == call[p] IN
    /\ c.pc = "hideTree:hidePanel"
    /\ \E ok \in Outcomes :
         IF ok
         THEN /\ panels' = panels \ {c.hideArg}
              /\ currentPosition' = None
              /\ call' = [call EXCEPT ![p] =
                   [c EXCEPT !.pc = "hideTree:setTreeViewEnabled",
                             !.log = @ \o <<<<"hidePanel.resolved", c.hideArg>>,
                                            <<"currentPosition", None>>,
                                            <<"setTreeViewEnabled", "false">>>>]]
         ELSE /\ call' = [call EXCEPT ![p] = Throw(c, "hidePanel")]
              /\ UNCHANGED <<panels, currentPosition>>
    /\ UNCHANGED <<enabled, hasWindow, env, prev, resolved, faults, script>>

\* setTreeViewEnabled(false) settles; hideTree returns.
hideTree_setTreeViewEnabled(p) ==
    LET c == call[p] IN
    /\ c.pc = "hideTree:setTreeViewEnabled"
    /\ \E ok \in Outcomes :
         IF ok
         THEN /\ enabled' = FALSE
              /\ call' = [call EXCEPT ![p] = AfterHideTree(c)]
         ELSE /\ call' = [call EXCEPT ![p] = Throw(c, "setTreeViewEnabled")]
              /\ UNCHANGED enabled
    /\ UNCHANGED <<currentPosition, panels, hasWindow, env, prev, resolved, faults, script>>

(***************************************************************************)
(* showTreeIfEnabled                                                       *)
(***************************************************************************)
\* Variant of showTreeIfEnabled_getEnv: the environment is not looked at.
showTreeIfEnabled_getEnv_anyEnv(p) ==
    LET c == call[p] IN
    /\ c.pc = "showTreeIfEnabled:getEnv"
    /\ \E ok \in Outcomes :
         call' = [call EXCEPT ![p] =
                    IF ~ok THEN Throw(c, "getEnv")
                    ELSE [c EXCEPT !.pc = "showTreeIfEnabled:isTreeViewEnabled"]]
    /\ UNCHANGED <<currentPosition, enabled, panels, hasWindow, env, prev, resolved, faults, script>>

\* system.getEnv() settles.
showTreeIfEnabled_getEnv(p) ==
    LET c == call[p] IN
    /\ c.pc = "showTreeIfEnabled:getEnv"
    /\ \E ok \in Outcomes :
         call' = [call EXCEPT ![p] =
                    IF ~ok THEN Throw(c, "getEnv")
                    ELSE IF env = "server" THEN Return(c)
                    ELSE [c EXCEPT !.pc = "showTreeIfEnabled:isTreeViewEnabled"]]
    /\ UNCHANGED <<currentPosition, enabled, panels, hasWindow, env, prev, resolved, faults, script>>

\* Variant of showTreeIfEnabled_isTreeViewEnabled: the test of the preference
\* is inverted.
showTreeIfEnabled_isTreeViewEnabled_inverted(p) ==
    LET c == call[p] IN
    /\ c.pc = "showTreeIfEnabled:isTreeViewEnabled"
    /\ \E ok \in Outcomes :
         call' = [call EXCEPT ![p] =
                    IF ~ok THEN Throw(c, "isTreeViewEnabled")
                    ELSE IF ~enabled THEN EnterShowTree(c)
                    ELSE Return(c)]
    /\ UNCHANGED <<currentPosition, enabled, panels, hasWindow, env, prev, resolved, faults, script>>

\* isTreeViewEnabled() settles.
showTreeIfEnabled_isTreeViewEnabled(p) ==
    LET c == call[p] IN
    /\ c.pc = "showTreeIfEnabled:isTreeViewEnabled"
    /\ \E ok \in Outcomes :
         call' = [call EXCEPT ![p] =
                    IF ~ok THEN Throw(c, "isTreeViewEnabled")
                    ELSE IF enabled THEN EnterShowTree(c)
                    ELSE Return(c)]
    /\ UNCHANGED <<currentPosition, enabled, panels, hasWindow, env, prev, resolved, faults, script>>

(***************************************************************************)
(* showTree                                                                *)
(***************************************************************************)
\* Variant of showTree_getPlugConfig: a panel rendered elsewhere is not hidden.
showTree_getPlugConfig_noHide(p) ==
    LET c == call[p] IN
    /\ c.pc = "showTree:getPlugConfig"
    /\ \E ok \in Outcomes, config \in Configs, innerWidth \in 0..MaxWidth :
         call' = [call EXCEPT ![p] =
                    IF ~ok THEN Throw(c, "getPlugConfig")
                    ELSE IssueReadAssets(
                           [c EXCEPT !.target =
                              getAdaptivePosition(config, hasWindow, innerWidth)])]
    /\ UNCHANGED <<currentPosition, enabled, panels, hasWindow, env, prev, resolved, faults, script>>

\* getPlugConfig() settles with the configuration as it is now, and
\* window.innerWidth is read: both are inputs, since the user may have edited
\* the configuration and resized the viewport at any time.  The position is
\* resolved; a panel rendered at another position is hidden first, otherwise
\* the asset reads are issued.
showTree_getPlugConfig(p) ==
    LET c == call[p] IN
    /\ c.pc = "showTree:getPlugConfig"
    /\ \E ok \in Outcomes, config \in Configs, innerWidth \in 0..MaxWidth :
         call' = [call EXCEPT ![p] =
                    IF ~ok THEN Throw(c, "getPlugConfig")
                    ELSE LET adaptivePosition ==
                               getAdaptivePosition(config, hasWindow, innerWidth)
                             c1 == [c EXCEPT !.target = adaptivePosition]
                         IN  IF /\ currentPosition # None
                                /\ adaptivePosition # currentPosition
                             THEN EnterHideTree(c1, "showTree")
                             ELSE IssueReadAssets(c1)]
    /\ UNCHANGED <<currentPosition, enabled, panels, hasWindow, env, prev, resolved, faults, script>>

\* Variant of showTree_readAssets: a rejected read is noted and showTree goes
\* on without the asset.
showTree_readAssets_partial(p) ==
    LET c == call[p] IN
    /\ c.pc = "showTree:readAsset"
    /\ \E k \in AssetOutcomes :
         call' = [call EXCEPT ![p] =
                    IF k # 0 THEN [c EXCEPT !.pc = "showTree:getPageTree",
                                            !.err = "readAsset"]
                    ELSE [c EXCEPT !.pc = "showTree:getPageTree"]]
    /\ UNCHANGED <<currentPosition, enabled, panels, hasWindow, env, prev, resolved, faults, script>>

\* The Promise.all of the asset reads settles: it rejects when the read of
\* some asset k rejects (k = 0: every read resolved); then getPageTree is
\* issued.
showTree_readAssets(p) ==
    LET c == call[p] IN
    /\ c.pc = "showTree:readAsset"
    /\ \E k \in AssetOutcomes :
         call' = [call EXCEPT ![p] =
                    IF k # 0 THEN Throw(c, "readAsset")
                    ELSE [c EXCEPT !.pc = "showTree:getPageTree"]]
    /\ UNCHANGED <<currentPosition, enabled, panels, hasWindow, env, prev, resolved, faults, script>>

\* getPageTree(config) settles; getCustomStyles is issued.
showTree_getPageTree(p) ==
    LET c == call[p] IN
    /\ c.pc = "showTree:getPageTree"
    /\ \E ok \in Outcomes :
         call' = [call EXCEPT ![p] =
                    IF ~ok THEN Throw(c, "getPageTree")
                    ELSE [c EXCEPT !.pc = "showTree:getCustomStyles"]]
    /\ UNCHANGED <<currentPosition, enabled, panels, hasWindow, env, prev, resolved, faults, script>>

\* getCustomStyles() settles; editor.showPanel(adaptivePosition, ...) is issued.
showTree_getCustomStyles(p) ==
    LET c == call[p] IN
    /\ c.pc = "showTree:getCustomStyles"
    /\ \E ok \in Outcomes :
         call' = [call EXCEPT ![p] =
                    IF ~ok THEN Throw(c, "getCustomStyles")
                    ELSE [c EXCEPT !.pc = "showTree:showPanel",
                                   !.log = Append(@, <<"showPanel", c.target>>)]]
    /\ UNCHANGED <<currentPosition, enabled, panels, hasWindow, env, prev, resolved, faults, script>>

\* editor.showPanel settles; setTreeViewEnabled(true) is issued.
showTree_showPanel(p) ==
    LET c == call[p] IN
    /\ c.pc = "showTree:showPanel"
    /\ \E ok \in Outcomes :
         IF ok
         THEN /\ panels' = panels \cup {c.target}
              /\ call' = [call EXCEPT ![p] =
                   [c EXCEPT !.pc = "showTree:setTreeViewEnabled",
                             !.log = @ \o <<<<"showPanel.resolved", c.target>>,
                                            <<"setTreeViewEnabled", "true">>>>]]
         ELSE /\ call' = [call EXCEPT ![p] = Throw(c, "showPanel")]
              /\ UNCHANGED panels
    /\ UNCHANGED <<currentPosition, enabled, hasWindow, env, prev, resolved, faults, script>>

\* Variant of showTree_setTreeViewEnabled: the slot is not assigned.
showTree_setTreeViewEnabled_noSlot(p) ==
    LET c == call[p] IN
    /\ c.pc = "showTree:setTreeViewEnabled"
    /\ \E ok \in Outcomes :
         IF ok
         THEN /\ enabled' = TRUE
              /\ call' = [call EXCEPT ![p] = Return(c)]
         ELSE /\ call' = [call EXCEPT ![p] = Throw(c, "setTreeViewEnabled")]
              /\ UNCHANGED enabled
    /\ UNCHANGED <<currentPosition, panels, hasWindow, env, prev, resolved, faults, script>>

\* setTreeViewEnabled(true) settles; the slot is set; showTree returns.
showTree_setTreeViewEnabled(p) ==
    LET c == call[p] IN
    /\ c.pc = "showTree:setTreeViewEnabled"
    /\ \E ok \in Outcomes :
         IF ok
         THEN /\ enabled' = TRUE
              /\ currentPosition' = c.target
              /\ call' = [call EXCEPT ![p] =
                   Return([c EXCEPT !.log = Append(@, <<"currentPosition", c.target>>)])]
         ELSE /\ call' = [call EXCEPT ![p] = Throw(c, "setTreeViewEnabled")]
              /\ UNCHANGED <<enabled, currentPosition>>
    /\ UNCHANGED <<panels, hasWindow, env, prev, resolved, faults, script>>

(***************************************************************************)
(* The surroundings.                                                       *)
(***************************************************************************)
\* The process is restarted: the module is loaded afresh and the host has no
\* panel; the persisted preference survives.
Restart ==
    /\ \A p \in Procs : call[p].pc \in {"idle", "done"}
    /\ currentPosition' = None
    /\ panels' = {}
    /\ call' = [p \in Procs |-> IdleCall]
    /\ prev' = [p \in Procs |-> Summary(IdleCall)]
    /\ UNCHANGED <<enabled, hasWindow, env, resolved, faults, script>>

\* One resumption of the invocation on p.
Step(p) ==
    \/ toggleTree(p)
    \/ hideTree_hidePanel(p)
    \/ hideTree_setTreeViewEnabled(p)
    \/ showTreeIfEnabled_getEnv(p)
    \/ showTreeIfEnabled_isTreeViewEnabled(p)
    \/ showTree_getPlugConfig(p)
    \/ showTree_readAssets(p)
    \/ showTree_getPageTree(p)
    \/ showTree_getCustomStyles(p)
    \/ showTree_showPanel(p)
    \/ showTree_setTreeViewEnabled(p)

\* The host invokes a function on p.
Call(p) ==
    \/ CallToggleTree(p)
    \/ CallShowTree(p)
    \/ CallHideTree(p)
    \/ CallShowTreeIfEnabled(p)

(***************************************************************************)
(* Spec: the host serializes the invocations (one runs to completion       *)
(* before the next starts), as the design assumes.                         *)
(***************************************************************************)
Next ==
    \/ Call(1)
    \/ Step(1)
    \/ Restart

Spec == Init /\ [][Next]_vars

(***************************************************************************)
(* SpecAllSucceed: serialized invocations in which every collaborator call *)
(* resolves; the configuration and the viewport width still change freely  *)
(* from one invocation to the next.                                        *)
(***************************************************************************)
SpecAllSucceed == InitAllSucceed /\ [][Next]_vars

(***************************************************************************)
(* SpecOverlap: the host does not serialize; two invocations may overlap   *)
(* and interleave at their awaits.  Every collaborator call resolves.  To  *)
(* keep the state space small, between two restarts proc 1 starts at most  *)
(* two invocations (the second is the one that finds a summary of the      *)
(* first in prev) and proc 2 at most one.                                  *)
(***************************************************************************)
CallOverlap(p) ==
    /\ p = 1 \/ call[p].pc = "idle"
    /\ prev[p].op = "none"
    /\ Call(p)

NextOverlap ==
    \/ \E p \in Procs : CallOverlap(p)
    \/ \E p \in Procs : Step(p)
    \/ Restart

SpecOverlap == InitAllSucceed /\ [][NextOverlap]_vars

(***************************************************************************)
(* SpecResolver: the position resolver applied to every configuration,     *)
(* viewport width and kind of context (with or without a window).          *)
(***************************************************************************)
ResolvePosition ==
    /\ \E config \in Configs, win \in BOOLEAN, innerWidth \in 0..MaxWidth :
         resolved' = {[config |-> config, hasWindow |-> win,
                       innerWidth |-> innerWidth,
                       position |-> getAdaptivePosition(config, win, innerWidth)]}
    /\ UNCHANGED <<currentPosition, enabled, panels, hasWindow, env, call, prev,
                   faults, script>>

NextResolver == ResolvePosition

SpecResolver == Init /\ [][NextResolver]_vars

(***************************************************************************)
(* SpecResize: the panel is shown and its script runs in the browser.      *)
(* Resize events arrive at any time, time passes, and a due timer runs     *)
(* when the event loop gets to it, which may be after a later resize event *)
(* has been dispatched.  The invocation of treeview.show that the timer    *)
(* requests is counted, not run.                                           *)
(***************************************************************************)
InitResize ==
    /\ currentPosition \in Position
    /\ panels = {currentPosition}
    /\ enabled = TRUE
    /\ hasWindow = TRUE
    /\ env = "client"
    /\ call = [p \in Procs |-> IdleCall]
    /\ prev = [p \in Procs |-> Summary(IdleCall)]
    /\ resolved = {}
    /\ faults = FALSE
    /\ \E autoMobileMode \in BOOLEAN :
          script = [NoScript EXCEPT !.listening = autoMobileMode]

\* The bookkeeping of a resize event, whether or not a listener is registered.
Resized(newBurst) ==
    [script EXCEPT
       !.sinceResize = 0,
       !.events = IF newBurst THEN 1 ELSE @ + 1,
       !.burstShows = IF newBurst THEN 0 ELSE @,
       !.finished = IF newBurst /\ script.events > 0
                    THEN {script.burstShows} ELSE @,
       !.lateCancel = IF newBurst
                      THEN script.listening /\ 0 \in script.resizeTimeout
                      ELSE @]

\* Mutant of ResizeEvent: the listener does not clear the pending timer.
ResizeEvent_noClear ==
    \E newBurst \in {script.events = 0 \/ script.sinceResize >= Debounce} :
       /\ newBurst \/ script.events < MaxBurst
       /\ script' = IF script.listening
                    THEN [Resized(newBurst) EXCEPT
                            !.resizeTimeout = @ \cup {Debounce}]
                    ELSE Resized(newBurst)
       /\ UNCHANGED <<currentPosition, enabled, panels, hasWindow, env, call,
                      prev, resolved, faults>>

\* The window fires 'resize' (lines 158-163): the listener, if registered,
\* clears the timer it set before and sets a new one.
ResizeEvent ==
    \E newBurst \in {script.events = 0 \/ script.sinceResize >= Debounce} :
       /\ newBurst \/ script.events < MaxBurst
       /\ script' = IF script.listening
                    THEN [Resized(newBurst) EXCEPT
                            !.resizeTimeout = {Debounce}]
                    ELSE Resized(newBurst)
       /\ UNCHANGED <<currentPosition, enabled, panels, hasWindow, env, call,
                      prev, resolved, faults>>

\* TickMs milliseconds pass.
Tick ==
    /\ script.sinceResize < Debounce
    /\ script' = [script EXCEPT
                    !.sinceResize = IF @ + TickMs > Debounce THEN Debounce
                                    ELSE @ + TickMs,
                    !.resizeTimeout = {IF r < TickMs THEN 0 ELSE r - TickMs :
                                         r \in @}]
    /\ UNCHANGED <<currentPosition, enabled, panels, hasWindow, env, call,
                   prev, resolved, faults>>

\* A due timer runs (lines 160-162): it asks the host to invoke
\* treeview.show.
TimerFires ==
    /\ 0 \in script.resizeTimeout
    /\ script' = [script EXCEPT
                    !.resizeTimeout = @ \ {0},
                    !.burstShows = IF @ < MaxBurst THEN @ + 1 ELSE @,
                    !.firedAt = {script.sinceResize}]
    /\ UNCHANGED <<currentPosition, enabled, panels, hasWindow, env, call,
                   prev, resolved, faults>>

NextResize ==
    \/ ResizeEvent
    \/ Tick
    \/ TimerFires

SpecResize == InitResize /\ [][NextResize]_vars

(***************************************************************************)
(* Properties.  cur is the invocation the host made last in the serialized *)
(* specification, while it runs and after it has returned or rejected.     *)
(***************************************************************************)
cur == call[1]

Done(c) == c.pc = "done"

\* Every collaborator call the invocation made has resolved.
NoFailure(c) == c.err = "none"

\* The controller's state is what it was when the invocation started.
StateAsBefore(c) ==
    /\ currentPosition = c.pre.currentPosition
    /\ enabled = c.pre.enabled

FetchErrors == {"readAsset", "getPageTree", "getCustomStyles"}

\* C1: when an asset read, getPageTree or getCustomStyles rejects inside
\* showTree, showTree rejects with that error and currentPosition and the
\* persisted preference have the values they had before the call, whatever
\* the prior state and the resolved target were.
C1_FetchFailureKeepsState ==
    (cur.op = "showTree" /\ Done(cur) /\ cur.err \in FetchErrors)
        => (cur.result = "rejected" /\ StateAsBefore(cur))

\* C2: when showPanel rejects inside showTree, showTree rejects and
\* currentPosition, the preference and the panels visible on the host are
\* the same as before the call, whatever the prior state and the resolved
\* target were.
C2_ShowPanelFailureKeepsState ==
    (cur.op = "showTree" /\ Done(cur) /\ cur.err = "showPanel")
        => (cur.result = "rejected" /\ StateAsBefore(cur)
            /\ panels = cur.pre.panels)

\* The invocation before cur was a toggleTree made while Hidden with the
\* preference false, and all its collaborator calls resolved.
PrevToggledOn ==
    /\ prev[1].op = "toggleTree"
    /\ prev[1].err = "none"
    /\ prev[1].pre.currentPosition = None
    /\ ~prev[1].pre.enabled

\* C3: from Hidden with the preference false and all collaborators
\* succeeding, toggleTree makes exactly one showPanel call and no hidePanel
\* call and leaves the preference true; a second toggleTree then makes
\* exactly one hidePanel call and no showPanel call and leaves the preference
\* false.  In general the step of toggleTree that reads the preference
\* changes no state itself, enters hideTree when it reads true and showTree
\* when it reads false.
C3_ToggleFirst ==
    (cur.op = "toggleTree" /\ Done(cur) /\ NoFailure(cur)
     /\ cur.pre.currentPosition = None /\ ~cur.pre.enabled)
        => /\ Count(cur.log, "showPanel") = 1
           /\ Count(cur.log, "hidePanel") = 0
           /\ enabled

C3_ToggleSecond ==
    (cur.op = "toggleTree" /\ Done(cur) /\ NoFailure(cur) /\ PrevToggledOn)
        => /\ prev[1].showPanels = 1 /\ prev[1].hidePanels = 0
           /\ cur.pre.enabled
           /\ Count(cur.log, "hidePanel") = 1
           /\ Count(cur.log, "showPanel") = 0
           /\ ~enabled

C3_ToggleDelegates ==
    (cur.pc = "toggleTree:isTreeViewEnabled" /\ call'[1] # cur)
        => /\ UNCHANGED <<currentPosition, enabled, panels>>
           /\ NoFailure(call'[1]) =>
                IF enabled
                THEN IF currentPosition # None
                     THEN call'[1].pc = "hideTree:hidePanel"
                     ELSE Done(call'[1]) /\ call'[1].log = <<>>
                ELSE call'[1].pc = "showTree:getPlugConfig"

C3_Toggle ==
    /\ [](C3_ToggleFirst /\ C3_ToggleSecond)
    /\ [][C3_ToggleDelegates]_vars

C3_Witness ==
    cur.op = "toggleTree" /\ Done(cur) /\ NoFailure(cur) /\ PrevToggledOn

\* C4: showTreeIfEnabled never raises to its caller, whichever of its
\* collaborator calls fail.
C4_ShowIfEnabledNeverRaises ==
    cur.op = "showTreeIfEnabled"
        => /\ cur.result # "rejected"
           /\ (cur.err # "none" => Done(cur) /\ cur.result = "ok")

C4_Witness ==
    cur.op = "showTreeIfEnabled" /\ Done(cur) /\ cur.err = "showPanel"

\* The invocation has had no effect: it issued no host call and no write,
\* and the state and the host's panels are as they were when it started.
NoSideEffects(c) ==
    /\ c.log = <<>>
    /\ StateAsBefore(c)
    /\ panels = c.pre.panels

\* C5: in a "server" environment showTreeIfEnabled has no side effect
\* whatever the preference is; in another environment with the preference
\* false it has none either.
C5_ShowIfEnabledNoOp ==
    (cur.op = "showTreeIfEnabled" /\ (env = "server" \/ ~cur.pre.enabled))
        => /\ NoSideEffects(cur)
           /\ cur.target = None

C5_Witness ==
    /\ cur.op = "showTreeIfEnabled" /\ Done(cur) /\ NoFailure(cur)
    /\ env = "server" /\ cur.pre.enabled

\* The invocation before cur was a hideTree made while Shown, and its
\* hidePanel call resolved.
PrevHidShown ==
    /\ prev[1].op = "hideTree"
    /\ prev[1].pre.currentPosition # None
    /\ prev[1].err # "hidePanel"

\* C6: hide is idempotent.  A hideTree made while Shown(P) whose hidePanel
\* call resolves issues exactly one hidePanel, for P, and leaves the state
\* Hidden; a hideTree that follows it issues none, so the two together issue
\* one, and the state is Hidden again.  A hideTree made while Hidden issues
\* no host call and writes neither currentPosition nor the preference.
C6_HideIdempotent ==
    (cur.op = "hideTree" /\ Done(cur))
        => /\ (cur.pre.currentPosition # None /\ cur.err # "hidePanel")
                => /\ Count(cur.log, "hidePanel") = 1
                   /\ cur.log[1] = <<"hidePanel", cur.pre.currentPosition>>
                   /\ currentPosition = None
                   /\ cur.pre.currentPosition \notin panels
           /\ PrevHidShown
                => /\ prev[1].hidePanels + Count(cur.log, "hidePanel") = 1
                   /\ cur.pre.currentPosition = None
                   /\ currentPosition = None
           /\ cur.pre.currentPosition = None
                => /\ NoSideEffects(cur)
                   /\ cur.result = "ok"

C6_Witness ==
    cur.op = "hideTree" /\ Done(cur) /\ PrevHidShown

\* showPanel was issued in the log only after hidePanel(P) had resolved.
HideResolvedBeforeShow(log, P) ==
    \A i \in DOMAIN log :
        log[i][1] = "showPanel"
            => \E j \in 1..(i - 1) : log[j] = <<"hidePanel.resolved", P>>

\* The host calls of a log, in the order of their issue.
HostCalls(log) ==
    SelectSeq(log, LAMBDA e : e[1] \in {"hidePanel", "showPanel"})

\* C7: showTree (called by the host, by toggleTree or by showTreeIfEnabled;
\* cur.target is set once it has resolved its target) entered while Shown(P) with resolved target P issues no
\* hidePanel; entered while Shown(P) with another resolved target P' it
\* issues hidePanel(P) first and showPanel(P') only once that hidePanel has
\* resolved; when nothing fails its host calls are hidePanel(P), showPanel(P')
\* in that order.
C7_ReentrantShow ==
    (cur.target # None /\ cur.pre.currentPosition # None)
        => IF cur.target = cur.pre.currentPosition
           THEN /\ Count(cur.log, "hidePanel") = 0
                /\ (Done(cur) /\ NoFailure(cur))
                     => HostCalls(cur.log) = <<<<"showPanel", cur.target>>>>
           ELSE /\ cur.log # <<>>
                /\ cur.log[1] = <<"hidePanel", cur.pre.currentPosition>>
                /\ HideResolvedBeforeShow(cur.log, cur.pre.currentPosition)
                /\ (Done(cur) /\ NoFailure(cur))
                     => HostCalls(cur.log) =
                          <<<<"hidePanel", cur.pre.currentPosition>>,
                            <<"showPanel", cur.target>>>>

C7_Witness ==
    /\ cur.op = "showTree" /\ Done(cur) /\ NoFailure(cur)
    /\ cur.pre.currentPosition \notin {None, cur.target}

\* C8, as stated: with autoMobileMode=true in a visual context the resolved
\* position is "modal" if and only if the viewport width is at most
\* config.mobileThreshold, for every config.position of the enumeration.
C8_ModalIffNarrow ==
    \A r \in resolved :
        (r.config.autoMobileMode /\ r.hasWindow)
            => (r.position = "modal"
                  <=> r.innerWidth <= r.config.mobileThreshold)

\* C8, amended: with autoMobileMode=true in a visual context the resolved
\* position is "modal" if and only if the viewport width is at most
\* config.mobileThreshold or config.position is itself "modal"; when the
\* viewport is wider the resolved position is config.position.
C8_ModalIffNarrowOrConfigured ==
    \A r \in resolved :
        (r.config.autoMobileMode /\ r.hasWindow)
            => /\ r.position = "modal"
                    <=> \/ r.innerWidth <= r.config.mobileThreshold
                        \/ r.config.position = "modal"
               /\ r.innerWidth > r.config.mobileThreshold
                    => r.position = r.config.position

C8_Witness ==
    \E r \in resolved :
        /\ r.config.autoMobileMode /\ r.hasWindow
        /\ r.innerWidth <= r.config.mobileThreshold
        /\ r.config.position # "modal"
        /\ r.position = "modal"

\* C9: the resolver returns config.position unchanged when autoMobileMode is
\* false, whatever the viewport width, and in a headless context, whatever
\* autoMobileMode is.
C9_ConfiguredPositionKept ==
    \A r \in resolved :
        (~r.config.autoMobileMode \/ ~r.hasWindow)
            => r.position = r.config.position

C9_Witness ==
    \E r \in resolved :
        /\ r.config.autoMobileMode /\ ~r.hasWindow
        /\ r.innerWidth <= r.config.mobileThreshold
        /\ r.config.position # "modal"
        /\ r.position = r.config.position

\* C10: a showTree call in which every collaborator call resolves ends in
\* Shown(target), target being the position it resolved at its start: it
\* issued exactly one showPanel, for target, the host shows the panel at
\* target, currentPosition is target and the preference is true.
C10_ShowSucceeds ==
    (cur.op = "showTree" /\ Done(cur) /\ NoFailure(cur))
        => /\ cur.result = "ok"
           /\ cur.target \in Position
           /\ Count(cur.log, "showPanel") = 1
           /\ \E i \in DOMAIN cur.log : cur.log[i] = <<"showPanel", cur.target>>
           /\ cur.target \in panels
           /\ currentPosition = cur.target
           /\ enabled

C10_Witness ==
    /\ cur.op = "showTree" /\ Done(cur) /\ NoFailure(cur)
    /\ cur.pre.currentPosition \notin {None, cur.target}
    /\ currentPosition = cur.target


\* C11: when hidePanel rejects, in hideTree called by the host or by
\* toggleTree, or in the hide step of showTree, the error reaches the caller
\* (showTreeIfEnabled alone absorbs it), currentPosition, the preference and
\* the host's panels keep their values from before the call, and the call
\* issues no showPanel.
C11_HidePanelFailureKeepsState ==
    cur.err = "hidePanel"
        => /\ Done(cur)
           /\ cur.op # "showTreeIfEnabled" => cur.result = "rejected"
           /\ StateAsBefore(cur)
           /\ panels = cur.pre.panels
           /\ Count(cur.log, "showPanel") = 0
           /\ cur.log = <<<<"hidePanel", cur.pre.currentPosition>>>>

C11_Witness ==
    cur.op = "showTree" /\ cur.err = "hidePanel" /\ cur.target # None

\* The steps of showTree that come after every fetch has resolved.
AfterFetches == {"showTree:showPanel", "showTree:setTreeViewEnabled", "done"}

\* C12: no partial render.  When an asset read, getPageTree or
\* getCustomStyles rejects in showTree, showTree stops there and rejects and
\* no showPanel is issued; a showPanel is issued only by an invocation all of
\* whose fetches have resolved.
C12_NoPartialRender ==
    /\ cur.err \in FetchErrors
         => /\ Done(cur)
            /\ cur.op # "showTreeIfEnabled" => cur.result = "rejected"
            /\ Count(cur.log, "showPanel") = 0
            /\ cur.pre.panels \cap panels = panels
    /\ Count(cur.log, "showPanel") > 0
         => /\ cur.pc \in AfterFetches
            /\ cur.err \in {"none", "showPanel", "setTreeViewEnabled"}

C12_Witness ==
    cur.op = "showTree" /\ Done(cur) /\ cur.err = "getCustomStyles"


\* No invocation is running.
BetweenCalls == \A p \in Procs : call[p].pc \in {"idle", "done"}

\* C13: with serialized invocations whose collaborator calls all resolve,
\* whatever configuration and viewport width each of them finds, the host
\* shows the tree at no more than one position at any time, and between
\* invocations currentPosition is that position when a panel is visible and
\* undefined when none is.
C13_AtMostOnePanel ==
    /\ Cardinality(panels) <= 1
    /\ BetweenCalls
         => panels = (IF currentPosition = None THEN {} ELSE {currentPosition})

C13_Witness ==
    /\ Done(cur) /\ cur.target # None
    /\ cur.pre.currentPosition \notin {None, cur.target}
    /\ panels = {cur.target}


\* The preference and the rendered state agree: the preference is true
\* exactly when the slot holds a position and the host shows a panel there.
Reconciled ==
    enabled <=> (currentPosition # None /\ currentPosition \in panels)

\* C14: a showTreeIfEnabled call outside a "server" environment whose
\* collaborator calls all resolve ends with the preference and the rendered
\* state reconciled, from every state serialized invocations can reach, the
\* ones where the two diverge included (preference true with no rendered
\* position, as after a restart).
C14_ShowIfEnabledReconciles ==
    (cur.op = "showTreeIfEnabled" /\ Done(cur) /\ NoFailure(cur)
     /\ env # "server")
        => Reconciled

C14_Witness ==
    /\ cur.op = "showTreeIfEnabled" /\ Done(cur) /\ NoFailure(cur)
    /\ env # "server"
    /\ cur.pre.enabled /\ cur.pre.currentPosition = None
    /\ currentPosition # None


\* C17: every toggleTree call that completes without error flips the
\* persisted preference and the visibility of the panel, from every
\* reachable state, the states with the preference true and no rendered
\* position included.
C17_ToggleFlips ==
    (cur.op = "toggleTree" /\ Done(cur) /\ cur.result = "ok" /\ NoFailure(cur))
        => /\ enabled # cur.pre.enabled
           /\ (panels # {}) # (cur.pre.panels # {})

\* C19: whenever no invocation is running and the host shows a tree panel
\* at a position, currentPosition is that position, also after collaborator
\* calls (setTreeViewEnabled among them) have failed.
C19_SlotTracksPanel ==
    BetweenCalls => \A P \in panels : currentPosition = P


\* C15: a hideTree invoked while a showTree that started from Hidden is
\* still running wins in the end: once both have completed no panel is
\* visible, currentPosition is undefined and the preference is false.
C15_HideDuringShowWins ==
    \A p, q \in Procs :
        (/\ call[p].op = "showTree" /\ call[q].op = "hideTree"
         /\ call[p].pre.currentPosition = None /\ call[p].pre.panels = {}
         /\ p \in call[q].during
         /\ Done(call[p]) /\ Done(call[q]))
            => /\ panels = {}
               /\ currentPosition = None
               /\ ~enabled

\* C18: once two overlapping invocations that ran showTree have both
\* completed, the host shows the tree at no more than one position and
\* currentPosition is that position.
C18_OverlappingShowsOnePanel ==
    \A p, q \in Procs :
        (/\ call[p].target # None /\ call[q].target # None
         /\ p \in call[q].during
         /\ Done(call[p]) /\ Done(call[q]))
            => /\ Cardinality(panels) <= 1
               /\ panels # {} => panels = {currentPosition}

(***************************************************************************)
(* C16 (as stated).  With the listener registered, every burst of resize   *)
(* events triggers exactly one invocation of treeview.show, never earlier  *)
(* than Debounce after the last event of the burst, and a resize event     *)
(* leaves exactly its own timer pending; without the listener no timer is  *)
(* set and show is never invoked.                                          *)
(***************************************************************************)
NoResizeShow ==
    /\ script.resizeTimeout = {}
    /\ script.burstShows = 0
    /\ script.finished \subseteq {0}
    /\ script.firedAt = {}

====
